---- MODULE Spec2Model ----
(***************************************************************************)
(* A model of the regular-expression engine of regexp.py / reparse.py:     *)
(* the recursive-descent parser, the Thompson-style NFA builder, the       *)
(* subset construction, the partition-refinement minimizer, the two        *)
(* scanners, and the match / search / match_compile / search_compile       *)
(* entry points built from them.                                           *)
(*                                                                         *)
(* Characters are modelled by their byte value (Python 2 str elements), so *)
(* that the comparisons b <= c <= e of a class range are those of the      *)
(* code.  A Python exception is modelled by a result whose field exc names *)
(* the exception type; exc = "" is a normal return.                        *)
(***************************************************************************)
EXTENDS Integers, Sequences, FiniteSets, TLC

(***************************************************************************)
(* Characters.                                                             *)
(***************************************************************************)

\* ord() of the characters the model writes down as literals.
Ord ==
  [c \in {"NUL", "NL", "$", "(", ")", "*", "-", ".", "/", "[", "]", "^",
          "a", "b", "c", "d", "e", "f", "o", "r", "z", "|", "xFF"} |->
     CASE c = "NUL" -> 0   [] c = "NL" -> 10  [] c = "$" -> 36
       [] c = "("   -> 40  [] c = ")"  -> 41  [] c = "*" -> 42
       [] c = "-"   -> 45  [] c = "."  -> 46  [] c = "/" -> 47
       [] c = "["   -> 91  [] c = "]"  -> 93  [] c = "^" -> 94
       [] c = "a"   -> 97  [] c = "b"  -> 98  [] c = "c" -> 99
       [] c = "d"   -> 100 [] c = "e"  -> 101 [] c = "f" -> 102
       [] c = "o"   -> 111 [] c = "r"  -> 114 [] c = "z" -> 122
       [] c = "|"   -> 124 [] c = "xFF" -> 255]

\* A Python string, written as a tuple of character names.
Str(names) == [i \in 1..Len(names) |-> Ord[names[i]]]

\* reparse.RESERVED
RESERVED == {Ord["."], Ord["["], Ord["]"], Ord["("], Ord[")"], Ord["|"],
             Ord["*"], Ord["/"]}

\* s[n:]
Drop(s, n) == SubSeq(s, n + 1, Len(s))

\* s[0:n]
Take(s, n) == SubSeq(s, 1, IF n < Len(s) THEN n ELSE Len(s))

(***************************************************************************)
(* reparse.py: the parser.  Every parse_* returns a record                 *)
(*   [exc, val, rem, groups]                                               *)
(* where val is the tree (None when the production is empty), rem is the   *)
(* unconsumed input and groups is the next value of the count(1) iterator  *)
(* that numbers the groups.                                                *)
(***************************************************************************)

None == <<"None">>

IsNone(t) == t[1] = "None"

Ret(val, rem, groups) == [exc |-> "", val |-> val, rem |-> rem, groups |-> groups]

Raise(exc) == [exc |-> exc, val |-> None, rem |-> <<>>, groups |-> 0]

\* rprime -> - literal | None
parse_rprime(inpt) ==
  IF inpt = <<>> THEN Raise("AssertionError")
  ELSE IF inpt[1] # Ord["-"] \/ Take(inpt, 2) = <<Ord["-"], Ord["]"]>>
       THEN Ret(None, inpt, 0)
  ELSE IF Len(inpt) >= 2 THEN Ret(<<"CHR", inpt[2]>>, Drop(inpt, 2), 0)
  ELSE Raise("AssertionError")

\* parse_range, from the result rprime of parse_rprime(inpt[1:]) on
parse_range_rprime(inpt, rprime) ==
  IF rprime.exc # "" THEN rprime
  ELSE IF IsNone(rprime.val)
       THEN Ret(<<"CLSS", {inpt[1]}>>, Drop(inpt, 1), 0)
  ELSE Ret(<<"CLSS", {}, <<"RNGE", inpt[1], rprime.val[2]>>>>, rprime.rem, 0)

\* parse_range, from begin = inpt[0] on (inpt is past the escape character)
parse_range_begin(inpt) ==
  IF inpt = <<>> THEN Raise("AssertionError")
  ELSE parse_range_rprime(inpt, parse_rprime(Drop(inpt, 1)))

\* range -> literal rprime | None
parse_range(inpt) ==
  IF inpt = <<>> THEN Raise("AssertionError")
  ELSE IF inpt[1] = Ord["]"] THEN Ret(None, inpt, 0)
  ELSE parse_range_begin(IF inpt[1] = Ord["/"] THEN Drop(inpt, 1) ELSE inpt)

RECURSIVE parse_elements(_)

\* parse_elements, from the result elements of parse_elements(remnant) on
parse_elements_elements(rnge, elements) ==
  IF elements.exc # "" THEN elements
  ELSE IF IsNone(elements.val) THEN Ret(rnge.val, rnge.rem, 0)
  ELSE Ret(<<"CLSS", rnge.val[2] \cup elements.val[2]>>
             \o Drop(rnge.val, 2) \o Drop(elements.val, 2),
           elements.rem, 0)

\* parse_elements, from the result rnge of parse_range(inpt) on
parse_elements_range(inpt, rnge) ==
  IF rnge.exc # "" THEN rnge
  ELSE IF IsNone(rnge.val) THEN Ret(None, inpt, 0)
  ELSE parse_elements_elements(rnge, parse_elements(rnge.rem))

\* elements -> range elements | None
parse_elements(inpt) == parse_elements_range(inpt, parse_range(inpt))

RECURSIVE parse_base(_, _), parse_star(_, _), parse_ccat(_, _),
          parse_dsjn(_, _), parse_dprime(_, _)

\* parse_base on '(', from the result d of parse_dsjn(inpt[1:], groups) on
parse_base_group(group, d) ==
  IF d.exc # "" THEN d
  ELSE IF d.rem # <<>> /\ d.rem[1] = Ord[")"]
       THEN Ret(<<"GROUP", group, d.val>>, Drop(d.rem, 1), d.groups)
  ELSE Raise("AssertionError")

\* parse_base on '[^', from the result of parse_elements(inpt[2:]) on;
\* elements[1:] of None is a TypeError
parse_base_ncls(elements, groups) ==
  IF elements.exc # "" THEN elements
  ELSE IF ~(elements.rem # <<>> /\ elements.rem[1] = Ord["]"])
       THEN Raise("AssertionError")
  ELSE IF IsNone(elements.val) THEN Raise("TypeError")
  ELSE Ret(<<"NCLS">> \o Drop(elements.val, 1), Drop(elements.rem, 1), groups)

\* parse_base on '[', from the result of parse_elements(inpt[1:]) on
parse_base_clss(elements, groups) ==
  IF elements.exc # "" THEN elements
  ELSE IF ~(elements.rem # <<>> /\ elements.rem[1] = Ord["]"])
       THEN Raise("AssertionError")
  ELSE Ret(elements.val, Drop(elements.rem, 1), groups)

\* parse_base whose escape branch takes inpt[0], the '/', for the literal.
parse_base_slash_literal(inpt, groups) ==
  IF inpt = <<>> THEN Ret(None, inpt, groups)
  ELSE IF inpt[1] = Ord["/"] THEN
    IF Len(inpt) >= 2
    THEN Ret(<<"LTRL", inpt[1]>>, Drop(inpt, 2), groups)
    ELSE Raise("AssertionError")
  ELSE IF inpt[1] = Ord["."] THEN Ret(<<"DOT">>, Drop(inpt, 1), groups)
  ELSE IF inpt[1] = Ord["("]
       THEN parse_base_group(groups, parse_dsjn(Drop(inpt, 1), groups + 1))
  ELSE IF inpt[1] = Ord["["] THEN
    IF Len(inpt) < 2 THEN Raise("AssertionError")
    ELSE IF inpt[2] = Ord["^"]
         THEN parse_base_ncls(parse_elements(Drop(inpt, 2)), groups)
    ELSE parse_base_clss(parse_elements(Drop(inpt, 1)), groups)
  ELSE IF inpt[1] \in RESERVED THEN Ret(None, inpt, groups)
  ELSE Ret(<<"LTRL", inpt[1]>>, Drop(inpt, 1), groups)

\* base -> '(' dsjn ')' | literal | '[' elements ']'
parse_base(inpt, groups) ==
  IF inpt = <<>> THEN Ret(None, inpt, groups)
  ELSE IF inpt[1] = Ord["/"] THEN
    IF Len(inpt) >= 2
    THEN Ret(<<"LTRL", inpt[2]>>, Drop(inpt, 2), groups)
    ELSE Raise("AssertionError")
  ELSE IF inpt[1] = Ord["."] THEN Ret(<<"DOT">>, Drop(inpt, 1), groups)
  ELSE IF inpt[1] = Ord["("]
       THEN parse_base_group(groups, parse_dsjn(Drop(inpt, 1), groups + 1))
  ELSE IF inpt[1] = Ord["["] THEN
    IF Len(inpt) < 2 THEN Raise("AssertionError")
    ELSE IF inpt[2] = Ord["^"]
         THEN parse_base_ncls(parse_elements(Drop(inpt, 2)), groups)
    ELSE parse_base_clss(parse_elements(Drop(inpt, 1)), groups)
  ELSE IF inpt[1] \in RESERVED THEN Ret(None, inpt, groups)
  ELSE Ret(<<"LTRL", inpt[1]>>, Drop(inpt, 1), groups)

\* parse_star, from the result b of parse_base(inpt, groups) on
parse_star_base(inpt, b) ==
  IF b.exc # "" THEN b
  ELSE IF IsNone(b.val) THEN Ret(None, inpt, b.groups)
  ELSE IF b.rem # <<>> /\ b.rem[1] = Ord["*"]
       THEN Ret(<<"STAR", b.val>>, Drop(b.rem, 1), b.groups)
  ELSE b

\* star -> base '*' | base
parse_star(inpt, groups) == parse_star_base(inpt, parse_base(inpt, groups))

\* parse_ccat, from the result c of parse_ccat(remnant, groups) on
parse_ccat_ccat(s, c) ==
  IF c.exc # "" THEN c
  ELSE IF IsNone(c.val) THEN Ret(s.val, s.rem, c.groups)
  ELSE Ret(<<"CCAT", s.val, c.val>>, c.rem, c.groups)

\* parse_ccat, from the result s of parse_star(inpt, groups) on
parse_ccat_star(inpt, s) ==
  IF s.exc # "" THEN s
  ELSE IF IsNone(s.val) THEN Ret(None, inpt, s.groups)
  ELSE parse_ccat_ccat(s, parse_ccat(s.rem, s.groups))

\* ccat -> star ccat | None
parse_ccat(inpt, groups) == parse_ccat_star(inpt, parse_star(inpt, groups))

\* parse_dsjn, from the result sd of parse_dprime(remnant, groups) on
parse_dsjn_dprime(inpt, c, sd) ==
  IF sd.exc # "" THEN sd
  ELSE IF IsNone(c.val) /\ IsNone(sd.val) THEN
    IF inpt = <<>> THEN Ret(None, inpt, sd.groups)
    ELSE Raise("AssertionError")
  ELSE IF IsNone(sd.val) THEN Ret(c.val, c.rem, sd.groups)
  ELSE IF IsNone(c.val) THEN Raise("AssertionError")
  ELSE Ret(<<"DSJN", c.val, sd.val>>, sd.rem, sd.groups)

\* parse_dsjn, from the result c of parse_ccat(inpt, groups) on
parse_dsjn_ccat(inpt, c) ==
  IF c.exc # "" THEN c
  ELSE parse_dsjn_dprime(inpt, c, parse_dprime(c.rem, c.groups))

\* dsjn -> ccat dprime
parse_dsjn(inpt, groups) == parse_dsjn_ccat(inpt, parse_ccat(inpt, groups))

\* parse_dprime, from the result sd of parse_dprime(remnant, groups) on
parse_dprime_dprime(c, sd) ==
  IF sd.exc # "" THEN sd
  ELSE IF IsNone(sd.val) THEN Ret(c.val, c.rem, sd.groups)
  ELSE Ret(<<"DSJN", c.val, sd.val>>, sd.rem, sd.groups)

\* parse_dprime, from the result c of parse_ccat(inpt[1:], groups) on
parse_dprime_ccat(c) ==
  IF c.exc # "" THEN c
  ELSE IF IsNone(c.val) THEN Raise("AssertionError")
  ELSE parse_dprime_dprime(c, parse_dprime(c.rem, c.groups))

\* dprime -> '|' ccat dprime | None
parse_dprime(inpt, groups) ==
  IF inpt = <<>> \/ inpt[1] # Ord["|"] THEN Ret(None, inpt, groups)
  ELSE parse_dprime_ccat(parse_ccat(Drop(inpt, 1), groups))

\* reparse.parse, from the result of parse_dsjn on
parse_dsjn_end(r) ==
  IF r.exc # "" THEN r
  ELSE IF r.rem = <<>> THEN Ret(r.val, <<>>, r.groups)
  ELSE Raise("AssertionError")

\* reparse.parse
parse(inpt) == parse_dsjn_end(parse_dsjn(inpt, 1))

(***************************************************************************)
(* regexp.py: State objects.  The NFA lives in a heap: states are numbered *)
(* in allocation order, and the transitions attribute of a state is a      *)
(* reference to a dict object, so that the assignment                      *)
(*   sub_f1.transitions = sub_i2.transitions                               *)
(* of the concatenation case shares one dict between two states as the     *)
(* code does.  A dict maps a key (a character, the empty string or         *)
(* State.CLASS_MARK) to the list of the states reached.                    *)
(***************************************************************************)

\* The key '' of a transitions dict (transitions on the empty string).
EPSILON == -1

\* State.CLASS_MARK
CLASS_MARK == -2

\* for byte in xrange(256): the characters chr(0) .. chr(255)
Bytes == 0..255

Range(f) == {f[x] : x \in DOMAIN f}

\* dict()
EmptyDict == <<>>

\* d == {}
IsEmptyDict(d) == DOMAIN d = {}

\* A State that has no class_pred attribute.
NoPred == <<"none">>

EmptyHeap == [states |-> <<>>, dicts |-> <<>>]

\* State with the accept argument dropped: every new state accepts.
State_accepting(heap, accept) ==
  [states |-> Append(heap.states,
                     [accept      |-> TRUE,
                      transitions |-> Len(heap.dicts) + 1,
                      class_pred  |-> NoPred]),
   dicts  |-> Append(heap.dicts, EmptyDict)]

\* State(name, accept): a new state with a new, empty transitions dict.
State(heap, accept) ==
  [states |-> Append(heap.states,
                     [accept      |-> accept,
                      transitions |-> Len(heap.dicts) + 1,
                      class_pred  |-> NoPred]),
   dicts  |-> Append(heap.dicts, EmptyDict)]

\* s.transitions, dereferenced
Transitions(heap, s) == heap.dicts[heap.states[s].transitions]

\* s.transitions[key] = dests
SetItem(heap, s, key, dests) ==
  [heap EXCEPT !.dicts[heap.states[s].transitions] = (key :> dests) @@ @]

\* s.class_pred = pred
SetPred(heap, s, pred) == [heap EXCEPT !.states[s].class_pred = pred]

\* The class predicates compile_to_nfa builds, applied to the character c:
\* the lambda of DOT, pred of CLSS and its negation for NCLS.
class_pred(p, c) ==
  CASE p[1] = "DOT"  -> c < 256 /\ c # Ord["NL"]
    [] p[1] = "CLSS" -> \/ c \in p[2]
                        \/ \E i \in 1..Len(p[3]) :
                             p[3][i][1] <= c /\ c <= p[3][i][2]
    [] p[1] = "NCLS" -> ~ (\/ c \in p[2]
                           \/ \E i \in 1..Len(p[3]) :
                                p[3][i][1] <= c /\ c <= p[3][i][2])

\* State.move of an NFA state
State_move(heap, s, inpt) ==
  LET transitions == Transitions(heap, s)
  IN IF CLASS_MARK \in DOMAIN transitions
        /\ class_pred(heap.states[s].class_pred, inpt)
     THEN Range(transitions[CLASS_MARK])
     ELSE IF inpt \in DOMAIN transitions
          THEN Range(transitions[inpt])
          ELSE {}

(***************************************************************************)
(* compile_to_nfa.  The result is [exc, heap, initial, final].             *)
(***************************************************************************)

NfaRet(heap, initial, final) ==
  [exc |-> "", heap |-> heap, initial |-> initial, final |-> final]

NfaRaise(exc) == [exc |-> exc, heap |-> EmptyHeap, initial |-> 0, final |-> 0]

\* [(begin, end) for _, begin, end in tree[2:]]
RangesOf(tree) == [i \in 1..(Len(tree) - 2) |-> <<tree[i + 2][2], tree[i + 2][3]>>]

RECURSIVE compile_to_nfa(_, _, _)
compile_to_nfa(tree, heap, accept_final) ==
  LET h1      == State(heap, FALSE)
      initial == Len(h1.states)
      h2      == State(h1, accept_final)
      final   == Len(h2.states)
      op      == tree[1]
  IN CASE op = "None" -> NfaRaise("TypeError")
       [] op = "LTRL" ->
            NfaRet(SetItem(h2, initial, tree[2], <<final>>), initial, final)
       [] op = "DOT" ->
            NfaRet(SetItem(SetPred(h2, initial, <<"DOT">>),
                           initial, CLASS_MARK, <<final>>),
                   initial, final)
       [] op \in {"CLSS", "NCLS"} ->
            NfaRet(SetItem(SetPred(h2, initial, <<op, tree[2], RangesOf(tree)>>),
                           initial, CLASS_MARK, <<final>>),
                   initial, final)
       [] op = "STAR" ->
            LET sub == compile_to_nfa(tree[2], h2, FALSE)
            IN IF sub.exc # "" THEN sub
               ELSE IF ~IsEmptyDict(Transitions(sub.heap, sub.final))
                    THEN NfaRaise("AssertionError")
               ELSE NfaRet(SetItem(SetItem(sub.heap, sub.final, EPSILON,
                                           <<sub.initial, final>>),
                                   initial, EPSILON, <<sub.initial, final>>),
                           initial, final)
       [] op = "CCAT" ->
            LET sub1 == compile_to_nfa(tree[2], h2, FALSE)
                sub2 == compile_to_nfa(tree[3], sub1.heap, accept_final)
            IN IF sub1.exc # "" THEN sub1
               ELSE IF sub2.exc # "" THEN sub2
               ELSE IF ~IsEmptyDict(Transitions(sub2.heap, sub1.final))
                    THEN NfaRaise("AssertionError")
               ELSE
                 LET shared == [sub2.heap EXCEPT
                                  !.states[sub1.final].transitions =
                                     sub2.heap.states[sub2.initial].transitions]
                     fused  == IF CLASS_MARK \in DOMAIN Transitions(sub2.heap, sub2.initial)
                               THEN SetPred(shared, sub1.final,
                                            sub2.heap.states[sub2.initial].class_pred)
                               ELSE shared
                 IN NfaRet(fused, sub1.initial, sub2.final)
       [] op = "DSJN" ->
            LET sub1 == compile_to_nfa(tree[2], h2, FALSE)
                sub2 == compile_to_nfa(tree[3], sub1.heap, FALSE)
            IN IF sub1.exc # "" THEN sub1
               ELSE IF sub2.exc # "" THEN sub2
               ELSE
                 LET h3 == SetItem(sub2.heap, initial, EPSILON,
                                   <<sub1.initial, sub2.initial>>)
                 IN IF ~IsEmptyDict(Transitions(h3, sub1.final))
                       \/ ~IsEmptyDict(Transitions(h3, sub2.final))
                    THEN NfaRaise("AssertionError")
                    ELSE NfaRet(SetItem(SetItem(h3, sub1.final, EPSILON, <<final>>),
                                        sub2.final, EPSILON, <<final>>),
                                initial, final)
       [] OTHER -> NfaRaise("Exception")

(***************************************************************************)
(* epsilon_closure, move and process over the NFA heap.                    *)
(***************************************************************************)

RECURSIVE epsilon_closure_loop(_, _, _, _)
\* One iteration of the while True loop of epsilon_closure.
epsilon_closure_loop(heap, old_states, new_states, visited) ==
  LET added == UNION {IF EPSILON \in DOMAIN Transitions(heap, old)
                      THEN Range(Transitions(heap, old)[EPSILON])
                      ELSE {} : old \in old_states \ visited}
      new2  == new_states \cup added
  IN IF new2 \subseteq old_states THEN new2
     ELSE epsilon_closure_loop(heap, old_states \cup new2, new2,
                               visited \cup old_states)

epsilon_closure(heap, states) == epsilon_closure_loop(heap, states, states, {})

move(heap, states, c) ==
  epsilon_closure(heap,
    UNION {State_move(heap, state, c) : state \in epsilon_closure(heap, states)})

RECURSIVE process_loop(_, _, _)
\* The for loop of process, on the rest of the input.
process_loop(heap, old_states, inpt) ==
  IF inpt = <<>> THEN old_states
  ELSE process_loop(heap,
         epsilon_closure(heap,
           UNION {State_move(heap, old, inpt[1]) : old \in old_states}),
         Tail(inpt))

process(heap, init, inpt) == process_loop(heap, epsilon_closure(heap, {init}), inpt)

(***************************************************************************)
(* compile_to_dfa.  A DFA state is identified by the frozenset of NFA      *)
(* states that is its key in dfa_state_lookup (the lookup is a bijection   *)
(* between the keys and the State objects).  A DFA is                      *)
(*   [init, states, accept, transitions]                                   *)
(* with transitions[s][char] the one-element list the code stores.         *)
(***************************************************************************)

RECURSIVE compile_to_dfa_loop(_, _, _, _)
\* compile_to_dfa_loop that skips the bytes on which no NFA state moves: no
\* state for the empty stateset, and no transition on those bytes.
compile_to_dfa_loop_no_dead(heap, dfa_states, marked, transitions) ==
  IF dfa_states \ marked = {} THEN [states |-> dfa_states, transitions |-> transitions]
  ELSE
    LET stateset == CHOOSE s \in dfa_states \ marked : TRUE
        live     == {char \in Bytes : move(heap, stateset, char) # {}}
        newset   == [char \in live |-> move(heap, stateset, char)]
    IN compile_to_dfa_loop(heap,
         dfa_states \cup Range(newset),
         marked \cup {stateset},
         (stateset :> [char \in live |-> <<newset[char]>>]) @@ transitions)

\* The while dfa_states - marked loop: one unmarked stateset per step.
compile_to_dfa_loop(heap, dfa_states, marked, transitions) ==
  IF dfa_states \ marked = {} THEN [states |-> dfa_states, transitions |-> transitions]
  ELSE
    LET stateset == CHOOSE s \in dfa_states \ marked : TRUE
        newset   == [char \in Bytes |-> move(heap, stateset, char)]
    IN compile_to_dfa_loop(heap,
         dfa_states \cup Range(newset),
         marked \cup {stateset},
         (stateset :> [char \in Bytes |-> <<newset[char]>>]) @@ transitions)

compile_to_dfa(heap, initial, final) ==
  LET dfa_init == epsilon_closure(heap, {initial})
      built    == compile_to_dfa_loop(heap, {dfa_init}, {}, <<>>)
  IN [init        |-> dfa_init,
      states      |-> built.states,
      accept      |-> [s \in built.states |-> final \in s],
      transitions |-> built.transitions]

\* State.move of a DFA state (no CLASS_MARK key in its transitions)
dfa_State_move(dfa, s, inpt) ==
  IF inpt \in DOMAIN dfa.transitions[s]
  THEN Range(dfa.transitions[s][inpt])
  ELSE {}

RECURSIVE dfa_process_loop(_, _, _)
\* The for loop of dfa_process; a missing transitions[char] is a KeyError.
dfa_process_loop(dfa, current, inpt) ==
  IF inpt = <<>> THEN [exc |-> "", val |-> dfa.accept[current]]
  ELSE IF inpt[1] \notin DOMAIN dfa.transitions[current]
       THEN [exc |-> "KeyError", val |-> FALSE]
  ELSE dfa_process_loop(dfa, dfa.transitions[current][inpt[1]][1], Tail(inpt))

dfa_process(dfa, inpt) == dfa_process_loop(dfa, dfa.init, inpt)

(***************************************************************************)
(* minimize_dfa.  A partition is a list of sets of DFA states; a minimized *)
(* state is identified by the index of its group in the final partition.   *)
(***************************************************************************)

\* The first index of p whose group holds s (0 stands for the raise).
group_of(s, p) ==
  IF \E idx \in 1..Len(p) : s \in p[idx]
  THEN CHOOSE idx \in 1..Len(p) :
         s \in p[idx] /\ \A j \in 1..(idx - 1) : s \notin p[j]
  ELSE 0

\* subgroup_dict of group for char: target group index -> states
subgroup_dict(dfa, group, partition, char) ==
  LET target(state) ==
        group_of(CHOOSE t \in dfa_State_move(dfa, state, char) : TRUE, partition)
  IN [tg \in {target(state) : state \in group} |->
        {state \in group : target(state) = tg}]

\* The values of a dict with integer keys, as a list in key order.
RECURSIVE Values(_)
Values(d) ==
  IF DOMAIN d = {} THEN <<>>
  ELSE LET k == CHOOSE x \in DOMAIN d : \A y \in DOMAIN d : x <= y
       IN <<d[k]>> \o Values([x \in DOMAIN d \ {k} |-> d[x]])

\* The while byte < 256 loop on one group: the subgroups of the first byte
\* that splits the group, or <<>> when no byte does.
split_group(dfa, group, partition) ==
  LET splitting == {byte \in Bytes :
                      Cardinality(DOMAIN subgroup_dict(dfa, group, partition, byte)) > 1}
  IN IF splitting = {} THEN <<>>
     ELSE LET byte == CHOOSE b \in splitting : \A o \in splitting : b <= o
          IN Values(subgroup_dict(dfa, group, partition, byte))

RECURSIVE refine_pass(_, _, _, _)
\* for idx, group in enumerate(partition), from index idx on; the group that
\* is split is dropped (set to None, then filtered) and its subgroups are
\* appended.
refine_pass(dfa, partition, idx, kept_and_new) ==
  IF idx > Len(partition) THEN kept_and_new.kept \o kept_and_new.new
  ELSE
    LET subgroups == split_group(dfa, partition[idx], partition)
    IN IF subgroups = <<>>
       THEN refine_pass(dfa, partition, idx + 1,
              [kept |-> Append(kept_and_new.kept, partition[idx]),
               new  |-> kept_and_new.new])
       ELSE refine_pass(dfa, partition, idx + 1,
              [kept |-> kept_and_new.kept,
               new  |-> kept_and_new.new \o subgroups])

RECURSIVE refine(_, _)
\* The while True loop: passes until one changes nothing.
refine(dfa, partition) ==
  LET new_partition == refine_pass(dfa, partition, 1, [kept |-> <<>>, new |-> <<>>])
  IN IF new_partition = partition THEN partition
     ELSE refine(dfa, new_partition)

\* partition = [accepting states, non-accepting states]
initial_partition(dfa) ==
  << {s \in dfa.states : dfa.accept[s]}, {s \in dfa.states : ~dfa.accept[s]} >>

\* The result of a minimize_dfa that raises.
MiniRaise(exc) ==
  [exc |-> exc, init |-> 0, states |-> {}, accept |-> <<>>, transitions |-> <<>>]

\* state.move(char).pop() raises KeyError on a state without a transition
\* for char (the last pass of the refinement visits every state and byte);
\* group.pop() raises KeyError on an empty group.
minimize_dfa(dfa) ==
  IF \E s \in dfa.states, char \in Bytes : dfa_State_move(dfa, s, char) = {}
  THEN MiniRaise("KeyError")
  ELSE
  LET partition == refine(dfa, initial_partition(dfa))
      indices   == 1..Len(partition)
  IN IF \E idx \in indices : partition[idx] = {}
     THEN MiniRaise("KeyError")
     ELSE
       LET representatives == [idx \in indices |-> CHOOSE s \in partition[idx] : TRUE]
           initial_idx     == group_of(dfa.init, partition)
       IN [exc         |-> "",
           init        |-> initial_idx,
           states      |-> indices,
           accept      |-> [idx \in indices |-> dfa.accept[representatives[idx]]],
           transitions |->
             [idx \in indices |->
                [char \in DOMAIN dfa.transitions[representatives[idx]] |->
                   <<group_of(dfa.transitions[representatives[idx]][char][1],
                              partition)>>]]]

(***************************************************************************)
(* search / search_compile: the rewriting of the pattern.                  *)
(***************************************************************************)

\* '[\x00-\xff]*'
ANCHOR == Str(<<"[", "NUL", "-", "xFF", "]", "*">>)

\* The pattern that search and search_compile hand to the parser.
search_pattern(pattern) ==
  LET head    == pattern # <<>> /\ pattern[1] = Ord["^"]
      p1      == IF head THEN Tail(pattern) ELSE pattern
      end     == p1 # <<>> /\ p1[Len(p1)] = Ord["$"]
      p2      == IF end THEN SubSeq(p1, 1, Len(p1) - 1) ELSE p1
      anchor_head == IF head THEN <<>> ELSE ANCHOR
      anchor_end  == IF end THEN <<>> ELSE ANCHOR
  IN anchor_head \o <<Ord["("]>> \o p2 \o <<Ord[")"]>> \o anchor_end

(***************************************************************************)
(* Inputs.                                                                 *)
(***************************************************************************)

\* Every pattern of at most MaxPatLen characters of PatternChars is tried,
\* and every text of at most MaxTextLen characters of TextChars.
MaxPatLen == 2

MaxTextLen == 2

PatternChars ==
  {Ord[c] : c \in {"(", ")", "|", "*", "[", "]", "^", "-", "/", ".", "$", "a", "b"}}

TextChars == {Ord["a"], Ord["b"]}

Strings(chars, n) == UNION {[1..k -> chars] : k \in 0..n}

\* Longer patterns: the scenarios of the documentation and the cases of
\* the classes, ranges, groups and anchors.
NamedPatterns ==
  { Str(<<"a", "(", "b", "|", "c", ")", "*", "d">>),
    Str(<<"(", "a", ")">>),
    Str(<<"(", "a", "|", "b", ")", "*">>),
    Str(<<"a", ")", "(", "b">>),
    Str(<<"(", "a", "b">>),
    Str(<<"a", "b", ")">>),
    Str(<<"(", "|", "a", ")">>),
    Str(<<"a", "b", "/">>),
    Str(<<"^", "f", "o", "o">>),
    Str(<<"b", "a", "r", "$">>),
    Str(<<"^", "a", "b", "$">>),
    Str(<<"[", "z", "-", "a", "]">>),
    Str(<<"[", "b", "-", "a", "]">>),
    Str(<<"a", "[", "b", "-", "a", "]", "*">>),
    Str(<<"[", "a", "-", "b", "]">>),
    Str(<<"[", "a", "-", "z", "]", "*">>),
    Str(<<"[", "^", "a", "]">>),
    Str(<<"[", "^", "a", "]", "*">>),
    Str(<<"[", "^", "]">>),
    Str(<<"[", "^", "]", "a", "]">>),
    Str(<<"a", "[", "]">>),
    Str(<<"[", "a", "b">>),
    Str(<<"[", "a", "-">>),
    Str(<<"[", "NUL", "-", "xFF", "]", "*">>),
    Str(<<"[", "^", "NUL", "-", "xFF", "]">>),
    Str(<<".", "*", "|", "NL", "*">>),
    Str(<<"a", "*", "b", "*">>),
    Str(<<"a", "b", "*", "|", "b", "a">>),
    Str(<<"a", "|", "b", "|", "a", "b">>),
    Str(<<".", "*", "a", "b">>),
    Str(<<"a", "*", "a">>),
    Str(<<"/", "(", "a", "/", ")", "*">>) }

NamedTexts ==
  { Str(<<"a", "b", "c", "b", "c", "d">>),
    Str(<<"a", "b", "c", "b", "c", "e">>),
    Str(<<"f", "o", "o", "b", "a", "r">>),
    Str(<<"a", "a", "b">>),
    Str(<<"NL">>),
    Str(<<"a", "NL">>),
    Str(<<"NL", "NL">>),
    Str(<<"(">>),
    Str(<<"(", "a">>),
    Str(<<"(", "a", ")", ")">>),
    Str(<<"(", "a", ")", "(", "a", ")">>) }

Patterns == Strings(PatternChars, MaxPatLen) \cup NamedPatterns

Texts == Strings(TextChars, MaxTextLen) \cup NamedTexts

(***************************************************************************)
(* The state machine: one call of an entry point on a pattern, stage by    *)
(* stage, followed by the scans of a text.  entry = "match" runs           *)
(* match(pattern, text) and match_compile(pattern).match(text), entry =    *)
(* "search" runs search(pattern, text) and                                 *)
(* search_compile(pattern).search(text); the two share the parse tree and  *)
(* the NFA, which both compute in the same way from the same string.       *)
(***************************************************************************)

VARIABLES
  entry,        \* "match" or "search"
  pattern,      \* the pattern argument
  source,       \* the string handed to reparse.parse
  pc,           \* the next stage, or "compiled", or "raised"
  exc,          \* the exception raised ("" if none)
  raisedIn,     \* the stage that raised ("" if none)
  tree,         \* the result of reparse.parse
  nfa,          \* the result of compile_to_nfa
  dfa,          \* the result of compile_to_dfa
  mini,         \* the result of minimize_dfa
  text,         \* the text scanned
  matchResult,  \* <<final in process(initial, text)>>, or <<>> before the scan
  dfaResult     \* <<dfa_process(mini_dfa, text)>>, or <<>> before the scan

vars == <<entry, pattern, source, pc, exc, raisedIn, tree, nfa, dfa, mini,
          text, matchResult, dfaResult>>

NoTree == <<"unset">>

NoNfa == NfaRaise("unset")

NoDfa == [init |-> {}, states |-> {}, accept |-> <<>>, transitions |-> <<>>]

NoMini == MiniRaise("unset")

Init ==
  /\ entry \in {"match", "search"}
  /\ pattern \in Patterns
  /\ source = pattern
  /\ pc = IF entry = "search" THEN "rewrite" ELSE "parse"
  /\ exc = ""
  /\ raisedIn = ""
  /\ tree = NoTree
  /\ nfa = NoNfa
  /\ dfa = NoDfa
  /\ mini = NoMini
  /\ text = <<>>
  /\ matchResult = <<>>
  /\ dfaResult = <<>>

\* search, search_compile: the pattern is rewritten before it is parsed.
Rewrite ==
  /\ pc = "rewrite"
  /\ source' = search_pattern(pattern)
  /\ pc' = "parse"
  /\ UNCHANGED <<entry, pattern, exc, raisedIn, tree, nfa, dfa, mini, text,
                 matchResult, dfaResult>>

\* re_tree = reparse.parse(pattern)
Parse ==
  /\ pc = "parse"
  /\ LET r == parse(source)
     IN IF r.exc = ""
        THEN /\ tree' = r.val
             /\ pc' = "compile_to_nfa"
             /\ UNCHANGED <<exc, raisedIn>>
        ELSE /\ pc' = "raised"
             /\ exc' = r.exc
             /\ raisedIn' = "parse"
             /\ UNCHANGED tree
  /\ UNCHANGED <<entry, pattern, source, nfa, dfa, mini, text, matchResult,
                 dfaResult>>

\* nfa = compile_to_nfa(re_tree)
CompileToNfa ==
  /\ pc = "compile_to_nfa"
  /\ LET r == compile_to_nfa(tree, EmptyHeap, TRUE)
     IN IF r.exc = ""
        THEN /\ nfa' = r
             /\ pc' = "compile_to_dfa"
             /\ UNCHANGED <<exc, raisedIn>>
        ELSE /\ pc' = "raised"
             /\ exc' = r.exc
             /\ raisedIn' = "compile_to_nfa"
             /\ UNCHANGED nfa
  /\ UNCHANGED <<entry, pattern, source, tree, dfa, mini, text, matchResult,
                 dfaResult>>

\* dfa = compile_to_dfa(*nfa)
CompileToDfa ==
  /\ pc = "compile_to_dfa"
  /\ dfa' = compile_to_dfa(nfa.heap, nfa.initial, nfa.final)
  /\ pc' = "minimize_dfa"
  /\ UNCHANGED <<entry, pattern, source, exc, raisedIn, tree, nfa, mini, text,
                 matchResult, dfaResult>>

\* mini_dfa = minimize_dfa(*dfa)
MinimizeDfa ==
  /\ pc = "minimize_dfa"
  /\ LET r == minimize_dfa(dfa)
     IN IF r.exc = ""
        THEN /\ mini' = r
             /\ pc' = "compiled"
             /\ UNCHANGED <<exc, raisedIn>>
        ELSE /\ pc' = "raised"
             /\ exc' = r.exc
             /\ raisedIn' = "minimize_dfa"
             /\ UNCHANGED mini
  /\ UNCHANGED <<entry, pattern, source, tree, nfa, dfa, text, matchResult,
                 dfaResult>>

\* The text of the first scan is any text; the other scan is of the same text.
CanScan(t) == (matchResult = <<>> /\ dfaResult = <<>>) \/ t = text

\* match: result_states = process(initial, text); return final in result_states
Process(t) ==
  /\ pc \in {"compiled", "raised"}
  /\ nfa.exc = ""
  /\ matchResult = <<>>
  /\ CanScan(t)
  /\ text' = t
  /\ matchResult' = <<nfa.final \in process(nfa.heap, nfa.initial, t)>>
  /\ UNCHANGED <<entry, pattern, source, pc, exc, raisedIn, tree, nfa, dfa,
                 mini, dfaResult>>

\* mini_dfa.match(text), mini_dfa.search(text): dfa_process(mini_dfa, text)
DfaProcess(t) ==
  /\ pc = "compiled"
  /\ dfaResult = <<>>
  /\ CanScan(t)
  /\ text' = t
  /\ dfaResult' = <<dfa_process(mini, t)>>
  /\ UNCHANGED <<entry, pattern, source, pc, exc, raisedIn, tree, nfa, dfa,
                 mini, matchResult>>

Next ==
  \/ Rewrite
  \/ Parse
  \/ CompileToNfa
  \/ CompileToDfa
  \/ MinimizeDfa
  \/ \E t \in Texts : Process(t)
  \/ \E t \in Texts : DfaProcess(t)

Spec == Init /\ [][Next]_vars

(***************************************************************************)
(* The language of a parse tree, as the documentation defines it (the      *)
(* reference the verdicts are compared with): a group denotes what its     *)
(* child denotes, the empty tree denotes the empty string.                 *)
(***************************************************************************)

RECURSIVE InLanguage(_, _)
InLanguage(t, s) ==
  CASE t[1] = "None"  -> s = <<>>
    [] t[1] = "LTRL"  -> s = <<t[2]>>
    [] t[1] = "DOT"   -> Len(s) = 1 /\ s[1] # Ord["NL"]
    [] t[1] = "CLSS"  -> Len(s) = 1 /\ class_pred(<<"CLSS", t[2], RangesOf(t)>>, s[1])
    [] t[1] = "NCLS"  -> Len(s) = 1 /\ class_pred(<<"NCLS", t[2], RangesOf(t)>>, s[1])
    [] t[1] = "GROUP" -> InLanguage(t[3], s)
    [] t[1] = "DSJN"  -> InLanguage(t[2], s) \/ InLanguage(t[3], s)
    [] t[1] = "CCAT"  -> \E k \in 0..Len(s) :
                           /\ InLanguage(t[2], SubSeq(s, 1, k))
                           /\ InLanguage(t[3], Drop(s, k))
    [] t[1] = "STAR"  -> \/ s = <<>>
                         \/ \E k \in 1..Len(s) :
                              /\ InLanguage(t[2], SubSeq(s, 1, k))
                              /\ InLanguage(t, Drop(s, k))

\* The operator op occurs in the tree t.
RECURSIVE HasOp(_, _)
HasOp(t, op) ==
  \/ t[1] = op
  \/ t[1] = "STAR" /\ HasOp(t[2], op)
  \/ t[1] = "GROUP" /\ HasOp(t[3], op)
  \/ t[1] \in {"CCAT", "DSJN"} /\ (HasOp(t[2], op) \/ HasOp(t[3], op))

\* The call is over: the matcher is compiled, or a stage raised.
Finished == pc \in {"compiled", "raised"}

\* The parser returned a tree (the string it was given is a valid pattern).
Parsed == pc \notin {"rewrite", "parse"} /\ raisedIn # "parse"

\* compile_to_dfa returned.
DfaBuilt == pc \in {"minimize_dfa", "compiled"} \/ raisedIn = "minimize_dfa"

(***************************************************************************)
(* C1                                                                      *)
(***************************************************************************)

\* C1: for every pattern that match compiles to an NFA and every text,
\* match_compile returns a matcher and its match(text) returns the boolean
\* that match(pattern, text) returns from the simulation of the NFA.
C1_CompiledAgreesWithNfa ==
  (entry = "match" /\ Finished /\ nfa.exc = "") =>
     /\ pc = "compiled"
     /\ (matchResult # <<>> /\ dfaResult # <<>>) =>
           /\ dfaResult[1].exc = ""
           /\ dfaResult[1].val = matchResult[1]

(***************************************************************************)
(* C2                                                                      *)
(***************************************************************************)

\* C2: a pattern with a parenthesized group compiles, the group being
\* compiled as its child, and match returns whether the text is in the
\* language of the pattern.
C2_GroupIsPureGrouping ==
  (entry = "match" /\ Finished /\ Parsed /\ HasOp(tree, "GROUP")) =>
     /\ nfa.exc = ""
     /\ matchResult # <<>> => matchResult[1] = InLanguage(tree, text)

(***************************************************************************)
(* C3                                                                      *)
(***************************************************************************)

\* C3: search and search_compile(...).search return the verdict of match on
\* the rewritten pattern: whenever the rewritten pattern is valid the call
\* returns, and its result is whether the text is in the language of the
\* rewritten pattern (true for '^foo' and for 'bar$' on 'foobar').
C3_SearchIsMatchOnRewritten ==
  (entry = "search" /\ Finished /\ Parsed) =>
     /\ pc = "compiled"
     /\ matchResult # <<>> => matchResult[1] = InLanguage(tree, text)
     /\ dfaResult # <<>> => /\ dfaResult[1].exc = ""
                            /\ dfaResult[1].val = InLanguage(tree, text)

(***************************************************************************)
(* C4                                                                      *)
(***************************************************************************)

\* The successor of state s of the automaton d on char.
Delta(d, s, char) == d.transitions[s][char][1]

\* The pairs that the pairs of frontier reach in one step.
StepPairs(d1, d2, frontier) ==
  {<<Delta(d1, pr[1], char), Delta(d2, pr[2], char)>> : pr \in frontier, char \in Bytes}

RECURSIVE ReachablePairs(_, _, _, _)
\* The pairs of states that two automata reach on the same strings; seen
\* includes frontier.
ReachablePairs(d1, d2, seen, frontier) ==
  IF frontier = {} THEN seen
  ELSE ReachablePairs(d1, d2, seen \cup StepPairs(d1, d2, frontier),
                      StepPairs(d1, d2, frontier) \ seen)

AcceptAlike(d1, d2, pairs) == \A pr \in pairs : d1.accept[pr[1]] = d2.accept[pr[2]]

\* Two total automata accept exactly the same strings.
SameLanguage(d1, d2) ==
  AcceptAlike(d1, d2,
    ReachablePairs(d1, d2, {<<d1.init, d2.init>>}, {<<d1.init, d2.init>>}))

\* The pairs of states not in known that one byte sends to a pair of known.
ToldApartNext(d, known) ==
  {pr \in (d.states \X d.states) \ known :
     \E char \in Bytes : <<Delta(d, pr[1], char), Delta(d, pr[2], char)>> \in known}

RECURSIVE Distinguishable(_, _, _)
\* The pairs of states of d that some string tells apart; more is
\* ToldApartNext(d, known).
Distinguishable(d, known, more) ==
  IF more = {} THEN known
  ELSE Distinguishable(d, known \cup more, ToldApartNext(d, known \cup more))

AllApart(d, apart) == \A p1, p2 \in d.states : p1 # p2 => <<p1, p2>> \in apart

AcceptDiffers(d) == {pr \in d.states \X d.states : d.accept[pr[1]] # d.accept[pr[2]]}

\* No two distinct states of d accept the same set of strings.
Minimal(d) ==
  AllApart(d, Distinguishable(d, AcceptDiffers(d), ToldApartNext(d, AcceptDiffers(d))))

\* C4: for every DFA that compile_to_dfa produces, minimize_dfa returns a
\* DFA that accepts the same strings, in which no two distinct states
\* accept the same strings, and that has no more states than its input.
C4_MinimizedIsEquivalentAndMinimal ==
  (DfaBuilt /\ pc # "minimize_dfa") =>
     /\ pc = "compiled"
     /\ SameLanguage(dfa, mini)
     /\ Minimal(mini)
     /\ Cardinality(mini.states) <= Cardinality(dfa.states)

(***************************************************************************)
(* C5                                                                      *)
(***************************************************************************)

\* The automaton d is one state, accepting or not as flag says, with every
\* byte looping to itself.
SingleLoopingState(d, flag) ==
  /\ d.states = {d.init}
  /\ d.accept[d.init] = flag
  /\ \A char \in Bytes : d.transitions[d.init][char] = <<d.init>>

\* C5: on a DFA without an accepting state minimize_dfa returns a single
\* non-accepting state looping to itself on every byte, and on a DFA whose
\* states all accept a single accepting state looping to itself.
C5_MinimizerEdgeCases ==
  (DfaBuilt /\ pc # "minimize_dfa") =>
     /\ (\A s \in dfa.states : ~dfa.accept[s]) =>
           pc = "compiled" /\ SingleLoopingState(mini, FALSE)
     /\ (\A s \in dfa.states : dfa.accept[s]) =>
           pc = "compiled" /\ SingleLoopingState(mini, TRUE)

(***************************************************************************)
(* C6                                                                      *)
(***************************************************************************)

\* Every state of d has, for each of the 256 bytes, exactly one successor,
\* which is a state of d.
Total(d) ==
  \A s \in d.states :
     /\ DOMAIN d.transitions[s] = Bytes
     /\ \A char \in Bytes : /\ Len(d.transitions[s][char]) = 1
                            /\ d.transitions[s][char][1] \in d.states

\* No text was scanned yet.  Process and DfaProcess leave dfa and mini
\* unchanged, so a DFA is looked at in the states before the first scan.
Unscanned == matchResult = <<>> /\ dfaResult = <<>>

\* C6: the DFA that compile_to_dfa returns and the DFA that minimize_dfa
\* returns are total, and dfa_process finds transitions[char] at every step.
C6_EveryDfaIsTotal ==
  /\ (DfaBuilt /\ Unscanned) => Cardinality(Bytes) = 256 /\ Total(dfa)
  /\ (pc = "compiled" /\ Unscanned) => Total(mini)
  /\ dfaResult # <<>> => dfaResult[1].exc = ""

\* A DFA with the dead state was built and minimized, and a text was scanned.
C6_Witness ==
  /\ pc = "compiled"
  /\ {} \in dfa.states
  /\ dfaResult # <<>>
  /\ Len(text) > 0

(***************************************************************************)
(* C7                                                                      *)
(***************************************************************************)

\* The states that s has a transition to, on any key.
Successors(heap, s) ==
  UNION {Range(Transitions(heap, s)[key]) : key \in DOMAIN Transitions(heap, s)}

RECURSIVE ReachableFrom(_, _)
ReachableFrom(heap, seen) ==
  LET more == UNION {Successors(heap, s) : s \in seen}
  IN IF more \subseteq seen THEN seen ELSE ReachableFrom(heap, seen \cup more)

\* C7: among the states reachable from the start state of the NFA that
\* compile_to_nfa returns exactly one accepts, it is the returned final
\* state, and it has no outgoing transitions.
C7_SingleAcceptState ==
  nfa.exc = "" =>
     /\ {s \in ReachableFrom(nfa.heap, {nfa.initial}) : nfa.heap.states[s].accept}
           = {nfa.final}
     /\ IsEmptyDict(Transitions(nfa.heap, nfa.final))

\* An NFA was built for a tree with a concatenation, an alternation and a
\* star.
C7_Witness ==
  /\ nfa.exc = ""
  /\ HasOp(tree, "CCAT")
  /\ HasOp(tree, "DSJN")
  /\ HasOp(tree, "STAR")

(***************************************************************************)
(* C8                                                                      *)
(***************************************************************************)

\* C8: the empty pattern compiles; match('', text) and
\* match_compile('').match(text) return whether text is empty.
C8_EmptyPatternMatchesEmptyText ==
  (entry = "match" /\ pattern = <<>> /\ Finished) =>
     /\ pc = "compiled"
     /\ matchResult # <<>> => matchResult[1] = (text = <<>>)
     /\ dfaResult # <<>> => /\ dfaResult[1].exc = ""
                            /\ dfaResult[1].val = (text = <<>>)

(***************************************************************************)
(* C9                                                                      *)
(***************************************************************************)

\* The number of occurrences of the character named c in p.
Count(p, c) == Cardinality({i \in 1..Len(p) : p[i] = Ord[c]})

\* No escape and no character class in p: every parenthesis and bar of p
\* is an operator.
Plain(p) == Count(p, "/") = 0 /\ Count(p, "[") = 0 /\ Count(p, "]") = 0

UnclosedParen(p) == Plain(p) /\ Count(p, "(") > Count(p, ")")

UnbalancedClose(p) ==
  /\ Plain(p)
  /\ \E k \in 1..Len(p) : Count(Take(p, k), ")") > Count(Take(p, k), "(")

UnclosedBracket(p) ==
  Count(p, "/") = 0 /\ Count(p, "[") > 0 /\ Count(p, "]") = 0

\* The run of '/' that ends p has odd length.
TrailingSlash(p) ==
  \E k \in 1..Len(p) :
     /\ \A i \in k..Len(p) : p[i] = Ord["/"]
     /\ k > 1 => p[k - 1] # Ord["/"]
     /\ (Len(p) - k + 1) % 2 = 1

MissingLeftOperand(p) ==
  /\ Plain(p)
  /\ \/ p # <<>> /\ p[1] = Ord["|"]
     \/ \E i \in 1..(Len(p) - 1) : p[i] = Ord["("] /\ p[i + 1] = Ord["|"]

\* The first '[' of p opens the class '[]' or '[^]'.
EmptyClass(p) ==
  /\ Count(p, "/") = 0
  /\ \E i \in 1..Len(p) :
        /\ p[i] = Ord["["]
        /\ \A j \in 1..(i - 1) : p[j] # Ord["["]
        /\ \/ i + 1 <= Len(p) /\ p[i + 1] = Ord["]"]
           \/ i + 2 <= Len(p) /\ p[i + 1] = Ord["^"] /\ p[i + 2] = Ord["]"]

Malformed(p) ==
  \/ UnclosedParen(p)
  \/ UnbalancedClose(p)
  \/ UnclosedBracket(p)
  \/ TrailingSlash(p)
  \/ MissingLeftOperand(p)
  \/ EmptyClass(p)

\* No automaton was built and no verdict returned.
NothingBuilt ==
  /\ nfa = NoNfa
  /\ dfa = NoDfa
  /\ mini = NoMini
  /\ matchResult = <<>>
  /\ dfaResult = <<>>

\* C9: a call of an entry point on a malformed pattern is rejected at
\* parse time: the stage that raises is reparse.parse, and no tree, NFA, DFA
\* or verdict is produced.
C9_MalformedPatternsRaise ==
  (Malformed(pattern) /\ pc \notin {"rewrite", "parse"}) =>
     pc = "raised" /\ raisedIn = "parse" /\ tree = NoTree /\ NothingBuilt

(***************************************************************************)
(* C10                                                                     *)
(***************************************************************************)

\* The first '[' of p opens a class that is the single range lo-hi with
\* lo > hi, both ordinary characters.
ReversedRange(p) ==
  /\ Count(p, "/") = 0
  /\ \E i \in 1..(Len(p) - 4) :
        /\ p[i] = Ord["["]
        /\ \A j \in 1..(i - 1) : p[j] # Ord["["]
        /\ p[i + 1] \notin {Ord["^"], Ord["]"], Ord["-"]}
        /\ p[i + 2] = Ord["-"]
        /\ p[i + 3] # Ord["]"]
        /\ p[i + 4] = Ord["]"]
        /\ p[i + 1] > p[i + 3]

\* C10: reparse.parse raises on a pattern with a class range lo-hi, lo > hi.
C10_ReversedRangeRejected ==
  (ReversedRange(source) /\ pc \notin {"rewrite", "parse"}) =>
     pc = "raised" /\ raisedIn = "parse"

(***************************************************************************)
(* C11                                                                     *)
(***************************************************************************)

\* '/(a/)*'
Scenario6Pattern == Str(<<"/", "(", "a", "/", ")", "*">>)

\* '(a)(a)'
Scenario6Text == Str(<<"(", "a", ")", "(", "a", ")">>)

\* The call match(p, t) has returned.
MatchReturned(p, t) ==
  entry = "match" /\ pattern = p /\ text = t /\ matchResult # <<>>

\* '(a' followed by any number of ')'
OpenAThenCloses(t) ==
  /\ Len(t) >= 2
  /\ t[1] = Ord["("]
  /\ t[2] = Ord["a"]
  /\ \A i \in 3..Len(t) : t[i] = Ord[")"]

\* A pattern that is one escape: '/' and one more byte.
OneEscape(p) == Len(p) = 2 /\ p[1] = Ord["/"]

\* C11 as stated: match('/(a/)*', '(a)(a)') returns true.
C11_Scenario6ReturnsTrue ==
  MatchReturned(Scenario6Pattern, Scenario6Text) => matchResult[1] = TRUE

\* C11, amended: '/x' parses to the literal byte x, reserved or not, and
\* match('/x', t) is true exactly for t = x; in '/(a/)*' the star applies to
\* the escaped ')' alone, so that match and the compiled matcher accept
\* '(a' followed by any number of ')': match('/(a/)*', '(a)(a)') is false.
C11_EscapeIsLiteralStarBindsToIt ==
  /\ (entry = "match" /\ OneEscape(pattern) /\ pc \notin {"rewrite", "parse"}) =>
        /\ tree = <<"LTRL", pattern[2]>>
        /\ matchResult # <<>> => matchResult[1] = (text = <<pattern[2]>>)
        /\ dfaResult # <<>> => /\ dfaResult[1].exc = ""
                               /\ dfaResult[1].val = (text = <<pattern[2]>>)
  /\ (entry = "match" /\ pattern = Scenario6Pattern
        /\ pc \notin {"rewrite", "parse"}) =>
        /\ tree = <<"CCAT", <<"LTRL", Ord["("]>>,
                     <<"CCAT", <<"LTRL", Ord["a"]>>,
                       <<"STAR", <<"LTRL", Ord[")"]>>>>>>>>
        /\ matchResult # <<>> => matchResult[1] = OpenAThenCloses(text)
        /\ dfaResult # <<>> => /\ dfaResult[1].exc = ""
                               /\ dfaResult[1].val = OpenAThenCloses(text)
  /\ MatchReturned(Scenario6Pattern, Scenario6Text) => matchResult[1] = FALSE

\* match('/(a/)*', '(a)(a)') and the compiled matcher have both answered.
C11_Witness ==
  /\ MatchReturned(Scenario6Pattern, Scenario6Text)
  /\ dfaResult # <<>>

====
